---- MODULE Spec2Model ----
(***************************************************************************)
(* Event-registration backend (techfestriti/RitiBackend).                  *)
(*                                                                         *)
(* The repository holds three iterations of the same Express/Mongoose      *)
(* server.  Each is a program of its own; the model runs one of them,      *)
(* chosen in Init:                                                         *)
(*   "server"    src/server.js                (register only, strict)      *)
(*   "tracking"  src/unnamed/part_000:1-230   (register + admin routes)    *)
(*   "basic"     src/unnamed/part_000:232-369 (register only, no checks)   *)
(*                                                                         *)
(* Text is a sequence of one-character strings, so that trim, lower-case   *)
(* and the two regular expressions are computed, not assumed.  The JS      *)
(* values undefined and null are the one-element sequences Undefined and   *)
(* Null, which no text equals.                                             *)
(***************************************************************************)
EXTENDS Naturals, Sequences, FiniteSets

\* ------------------------------------------------------------- bounds
MaxRegs == 2        \* documents ever constructed (ids 1..MaxRegs)
MaxPending == 2     \* register requests awaiting their insert
MaxClock == 1       \* values Date.now() takes: 0..MaxClock

\* ------------------------------------------------------------- JS values
Undefined == <<"undefined">>
Null == <<"null">>

\* -------------------------------------------------------------- text
IsSpace(c) == c = " "

ToLower(c) ==
  CASE c = "A" -> "a"
    [] c = "B" -> "b"
    [] c = "N" -> "n"
    [] c = "X" -> "x"
    [] c = "Y" -> "y"
    [] OTHER -> c

LowerCase(s) == [i \in 1..Len(s) |-> ToLower(s[i])]

RECURSIVE TrimStart(_)
TrimStart(s) ==
  IF s # <<>> /\ IsSpace(s[1]) THEN TrimStart(Tail(s)) ELSE s

RECURSIVE TrimEnd(_)
TrimEnd(s) ==
  IF s # <<>> /\ IsSpace(s[Len(s)]) THEN TrimEnd(SubSeq(s, 1, Len(s) - 1)) ELSE s

Trim(s) == TrimEnd(TrimStart(s))

\* [^\s@]+ : a non-empty run without white space and without "@"
NoSpaceAt(s) ==
  /\ s # <<>>
  /\ \A i \in 1..Len(s) : ~IsSpace(s[i]) /\ s[i] # "@"

\* /^[^\s@]+@[^\s@]+\.[^\s@]+$/.test(v)
EmailRegex(v) ==
  \E i \in 1..Len(v) : \E j \in 1..Len(v) :
    /\ i < j
    /\ v[i] = "@"
    /\ v[j] = "."
    /\ NoSpaceAt(SubSeq(v, 1, i - 1))
    /\ NoSpaceAt(SubSeq(v, i + 1, j - 1))
    /\ NoSpaceAt(SubSeq(v, j + 1, Len(v)))

Digits == {"0", "1", "2", "3", "4", "5", "6", "7", "8", "9"}

\* /^[6-9]\d{9}$/.test(v)
ContactRegex(v) ==
  /\ Len(v) = 10
  /\ v[1] \in {"6", "7", "8", "9"}
  /\ \A i \in 2..10 : v[i] \in Digits

\* ------------------------------------------------- JSON.parse of a list
\* An encoded string is a sequence of tokens: "[", "]", ",", a quoted
\* literal, or a bare word.  The strings a request carries here are array
\* texts or bare words, so the parse either yields a list or throws.
Quoted == {"\"quiz\"", "\"code\""}

Unquote(t) == IF t = "\"quiz\"" THEN "quiz" ELSE "code"

ItemsOk(t) ==
  \/ t = <<>>
  \/ /\ Len(t) % 2 = 1
     /\ \A i \in 1..Len(t) : IF i % 2 = 1 THEN t[i] \in Quoted ELSE t[i] = ","

Inner(t) == SubSeq(t, 2, Len(t) - 1)

JSONParses(t) ==
  /\ Len(t) >= 2
  /\ t[1] = "["
  /\ t[Len(t)] = "]"
  /\ ItemsOk(Inner(t))

JSONParse(t) ==
  LET items == Inner(t)
      n == (Len(items) + 1) \div 2
  IN [i \in 1..n |-> Unquote(items[2 * i - 1])]

RECURSIVE Text(_)
Text(t) == IF t = <<>> THEN "" ELSE t[1] \o Text(Tail(t))

\* ------------------------------------------------------------ requests
C_a == <<"a", "@", "b", ".", "c">>
C_A == <<"A", "@", "b", ".", "c">>
C_sp == <<" ", "a", "@", "b", ".", "c">>
C_x == <<"x", "@", "b", ".", "c">>
C_noat == <<"a", "b", ".", "c">>

Phone == <<"9", "8", "7", "6", "5", "4", "3", "2", "1", "0">>
PhoneLow == <<"5", "8", "7", "6", "5", "4", "3", "2", "1", "0">>

EvUndefined == [kind |-> "undefined", val |-> <<>>]
EvArray(l) == [kind |-> "array", val |-> l]
EvString(t) == [kind |-> "string", val |-> t]

EventInputs ==
  { EvUndefined,
    EvArray(<<>>),
    EvString(<<"[", "\"quiz\"", "]">>),
    EvString(<<"[", "]">>),
    EvString(<<"quiz">>) }

ValidBody ==
  [ name |-> <<"N">>, email |-> C_a, contact |-> Phone,
    college |-> <<"X">>, course |-> <<"Y">>, sem |-> <<"1">>,
    selectedEvents |-> EvArray(<<"quiz">>),
    isPresent |-> "undefined", paymentMethod |-> "undefined" ]

\* the valid body with one field changed
Bodies ==
  {ValidBody}
  \cup {[ValidBody EXCEPT !.name = v] : v \in {Undefined, <<" ">>}}
  \cup {[ValidBody EXCEPT !.email = v] : v \in {Undefined, C_A, C_sp, C_x, C_noat}}
  \cup {[ValidBody EXCEPT !.contact = v] : v \in {PhoneLow}}
  \cup {[ValidBody EXCEPT !.college = v] : v \in {Undefined}}
  \cup {[ValidBody EXCEPT !.course = v] : v \in {Undefined}}
  \cup {[ValidBody EXCEPT !.sem = v] : v \in {<<>>}}
  \cup {[ValidBody EXCEPT !.selectedEvents = v] : v \in EventInputs}
  \cup {[ValidBody EXCEPT !.isPresent = v] : v \in {"true"}}
  \cup {[ValidBody EXCEPT !.paymentMethod = v] : v \in {"crypto"}}

FileSizeLimit == 5242880

NoFile == [present |-> FALSE, mimetype |-> "", size |-> 0]

Files ==
  { NoFile,
    [present |-> TRUE, mimetype |-> "image/jpeg", size |-> FileSizeLimit],
    [present |-> TRUE, mimetype |-> "application/pdf", size |-> 1024],
    [present |-> TRUE, mimetype |-> "image/png", size |-> FileSizeLimit + 1] }

\* a register request: a body and an optional "idPhoto" file
Requests ==
  {[body |-> b, file |-> NoFile] : b \in Bodies}
  \cup {[body |-> b, file |-> f] :
          b \in {ValidBody, [ValidBody EXCEPT !.selectedEvents = EvArray(<<>>)]},
          f \in Files}

Headers == {"undefined", "true", "false", "TRUE"}
PaymentInputs == {"cash", "online", "null", "undefined", "crypto"}
AttendanceInputs == {"true", "false"}
\* :id  -- 0 is a string that is no ObjectId, the others are well formed
IdInputs == 0..MaxRegs

Variants == {"server", "tracking", "basic"}

VARIABLES variant, db, pending, nextId, clock, last, created

vars == <<variant, db, pending, nextId, clock, last, created>>

\* ----------------------------------------------------------- File Intake
AllowedTypes == {"image/jpeg", "image/png", "image/jpg"}

FileFilter(f) == f.mimetype \in AllowedTypes

\* upload.single('idPhoto'): "none", "stored", or the error it passes to next
Upload(v, f) ==
  IF ~f.present THEN "none"
  ELSE IF v = "basic" THEN "stored"
  ELSE IF ~FileFilter(f) THEN "filterError"
  ELSE IF f.size > FileSizeLimit THEN "LIMIT_FILE_SIZE"
  ELSE "stored"

\* ------------------------------------------------------------ handlers
RequiredFields == {"name", "email", "contact", "college", "course", "sem"}

\* requiredFields.filter(field => !req.body[field])
MissingFields(b) == {f \in RequiredFields : b[f] = Undefined \/ b[f] = <<>>}

\* typeof selectedEvents === 'string' ? try JSON.parse : as is
NormalizeEvents(ev) ==
  IF ev.kind = "string"
  THEN IF JSONParses(ev.val)
       THEN EvArray(JSONParse(ev.val))
       ELSE EvArray(<<Text(ev.val)>>)
  ELSE ev

\* !selectedEvents || selectedEvents.length === 0
NoEventSelected(ev) == ev.kind = "undefined" \/ Len(ev.val) = 0

\* !selectedEvents || (Array.isArray(selectedEvents) ? length === 0 : false)
NoEventSelectedBasic(ev) ==
  \/ ev.kind = "undefined"
  \/ ev.kind = "string" /\ Text(ev.val) = ""
  \/ ev.kind = "array" /\ Len(ev.val) = 0

\* Array.isArray(selectedEvents) ? selectedEvents : [selectedEvents]
SelectedEventsArray(ev) ==
  IF ev.kind = "array" THEN ev ELSE EvArray(<<Text(ev.val)>>)

\* type: [String] -- an array path left undefined holds the empty array
CastEvents(ev) == IF ev.kind = "undefined" THEN <<>> ELSE ev.val

PhotoPath(v, up) ==
  IF up = "stored" THEN "uploads/idPhoto"
  ELSE IF v = "tracking" THEN "undefined" ELSE "null"

\* new Registration({...}) under each iteration's schema (setters applied)
NewRegistration(v, b, ev, up, id, now) ==
  CASE v = "server" ->
         [ id |-> id, name |-> Trim(b.name), email |-> Trim(LowerCase(b.email)),
           contact |-> b.contact, college |-> Trim(b.college),
           course |-> Trim(b.course), sem |-> Trim(b.sem),
           selectedEvents |-> CastEvents(ev), idPhotoPath |-> PhotoPath(v, up),
           isPresent |-> "false", paymentMethod |-> "undefined",
           registrationDate |-> now ]
    [] v = "tracking" ->
         [ id |-> id, name |-> Trim(b.name), email |-> b.email,
           contact |-> b.contact, college |-> b.college,
           course |-> b.course, sem |-> b.sem,
           selectedEvents |-> CastEvents(ev), idPhotoPath |-> PhotoPath(v, up),
           isPresent |-> IF b.isPresent = "undefined" THEN "false" ELSE b.isPresent,
           paymentMethod |->
             IF b.paymentMethod = "undefined" THEN "null" ELSE b.paymentMethod,
           registrationDate |-> now ]
    [] OTHER ->
         [ id |-> id, name |-> b.name, email |-> b.email,
           contact |-> b.contact, college |-> b.college,
           course |-> b.course, sem |-> b.sem,
           selectedEvents |-> CastEvents(ev), idPhotoPath |-> PhotoPath(v, up),
           isPresent |-> "undefined", paymentMethod |-> "undefined",
           registrationDate |-> now ]

\* required: true on a String path
Required(x) == x # Undefined /\ x # Null /\ x # <<>>

RequiredOk(d) ==
  /\ Required(d.name)
  /\ Required(d.email)
  /\ Required(d.contact)
  /\ Required(d.college)
  /\ Required(d.course)
  /\ Required(d.sem)

PaymentEnum == {"cash", "online", "null"}

\* document validation run by save(): TRUE when no ValidationError
Validates(v, d) ==
  /\ RequiredOk(d)
  /\ v \in {"server", "tracking"} =>
       /\ EmailRegex(d.email)
       /\ ContactRegex(d.contact)
       /\ Len(d.selectedEvents) > 0
  /\ v = "tracking" => d.paymentMethod \in PaymentEnum

\* catch (error) { ... } of POST /api/register: the response it sends, if any
RegisterCatch(v, err) ==
  CASE v = "server" /\ err = "duplicate" ->
         [status |-> 409, error |-> "Email already registered", nresp |-> 1]
    [] v = "server" /\ err = "validation" ->
         [status |-> 400, error |-> "Validation failed", nresp |-> 1]
    [] v = "server" ->
         [status |-> 500, error |-> "Internal server error", nresp |-> 1]
    [] v = "basic" /\ err = "duplicate" ->
         [status |-> 400, error |-> "Email already registered", nresp |-> 1]
    [] v = "basic" /\ err = "validation" ->
         [status |-> 400, error |-> "Validation failed", nresp |-> 1]
    [] v = "basic" ->
         [status |-> 500, error |-> "Server error", nresp |-> 1]
    [] OTHER ->
         [status |-> 0, error |-> "", nresp |-> 0]

\* app.use((err, req, res, next) => res.status(500)...)
ErrorMiddleware == [status |-> 500, error |-> "Internal server error", nresp |-> 1]

\* a truthiness test in place of the comparison: if (authHeader)
CheckAdminAuthTruthy(h) == h # "undefined" /\ h # ""

\* const checkAdminAuth: authHeader === 'true'
CheckAdminAuth(h) == h = "true"

Unauthorized ==
  [status |-> 401, error |-> "Unauthorized: Invalid admin token", nresp |-> 1]

\* a loose test that takes a missing field for null: paymentMethod == null
PaymentMethodAllowedLoose(pm) == pm \in {"cash", "online", "null", "undefined"}

\* ['cash', 'online', null].includes(paymentMethod)
PaymentMethodAllowed(pm) == pm \in {"cash", "online", "null"}

\* ------------------------------------------------------------ storage
\* the unique index on email compares the stored values
DuplicateKey(d, recs) == \E r \in recs : r.email = d.email

IsPermutationOf(s, recs) ==
  /\ Len(s) = Cardinality(recs)
  /\ {s[i] : i \in 1..Len(s)} = recs

SortedDesc(s) ==
  \A i \in 1..Len(s) : \A j \in 1..Len(s) :
    i < j => s[i].registrationDate >= s[j].registrationDate

SortedAsc(s) ==
  \A i \in 1..Len(s) : \A j \in 1..Len(s) :
    i < j => s[i].registrationDate <= s[j].registrationDate

\* the sort key with the sign dropped: sort({ registrationDate: 1 })
FindSortedAsc(recs) ==
  {s \in [1..Cardinality(recs) -> recs] : IsPermutationOf(s, recs) /\ SortedAsc(s)}

\* Registration.find().sort({ registrationDate: -1 }): the orders it may return
FindSorted(recs) ==
  {s \in [1..Cardinality(recs) -> recs] : IsPermutationOf(s, recs) /\ SortedDesc(s)}

\* findByIdAndUpdate(id, { field: value }, { new: true }) on the collection
UpdateById(recs, id, field, value) ==
  {IF r.id = id THEN [r EXCEPT ![field] = value] ELSE r : r \in recs}

\* ------------------------------------------------------- history record
\* what the last request was and how it was answered (status 0: no answer)
Idle ==
  [ op |-> "none", stage |-> "none", status |-> 0, error |-> "", nresp |-> 0,
    regId |-> 0, body |-> <<>>, auth |-> FALSE, emailHeld |-> FALSE,
    eventsEmpty |-> FALSE, fileRejected |-> FALSE, valid |-> FALSE,
    sameEmail |-> FALSE, idValid |-> FALSE, idKnown |-> FALSE, pmClass |-> "none",
    storageOps |-> 0, storageFailed |-> FALSE, dbBefore |-> {} ]

Answer(l, r) == [l EXCEPT !.status = r.status, !.error = r.error, !.nresp = r.nresp]

\* e-mail addresses compared after trimming and lower-casing
NormEmail(e) == Trim(LowerCase(e))

EmailHeld(e, recs) == \E r \in recs : NormEmail(r.email) = NormEmail(e)

Present(x) == x # Undefined /\ Trim(x) # <<>>

\* selectedEvents after normalization (decoding) is absent or the empty list
EventsEmpty(ev) == NoEventSelected(NormalizeEvents(ev))

\* the six scalar fields present, both patterns matched, an event selected
ValidPayload(b) ==
  /\ \A f \in RequiredFields : Present(b[f])
  /\ EmailRegex(b.email)
  /\ ContactRegex(b.contact)
  /\ ~EventsEmpty(b.selectedEvents)

Init ==
  /\ variant \in Variants
  /\ db = {}
  /\ pending = {}
  /\ nextId = 1
  /\ clock = 0
  /\ last = Idle
  /\ created = {}

\* Date.now() moves on
Tick ==
  /\ clock < MaxClock
  /\ clock' = clock + 1
  /\ UNCHANGED <<variant, db, pending, nextId, last, created>>

\* POST /api/register up to the insert that save() issues
RegisterReceive(rq) ==
  LET b == rq.body
      up == Upload(variant, rq.file)
      ev == IF variant = "basic" THEN b.selectedEvents
            ELSE NormalizeEvents(b.selectedEvents)
      doc == NewRegistration(variant, b,
               IF variant = "basic" THEN SelectedEventsArray(ev) ELSE ev,
               up, nextId, clock)
      l == [Idle EXCEPT !.op = "register", !.stage = "handler",
              !.emailHeld = EmailHeld(b.email, db),
              !.eventsEmpty = EventsEmpty(b.selectedEvents),
              !.valid = ValidPayload(b),
              !.dbBefore = db]
      reject(r) ==
        /\ last' = Answer(l, r)
        /\ UNCHANGED <<pending, nextId>>
  IN /\ nextId <= MaxRegs
     /\ Cardinality(pending) < MaxPending
     /\ IF up \in {"filterError", "LIMIT_FILE_SIZE"}
        THEN /\ last' = Answer([l EXCEPT !.stage = "upload", !.fileRejected = TRUE],
                               ErrorMiddleware)
             /\ UNCHANGED <<pending, nextId>>
        ELSE IF variant = "server" /\ MissingFields(b) # {}
        THEN reject([status |-> 400, error |-> "Missing required fields", nresp |-> 1])
        ELSE IF \/ variant = "server" /\ NoEventSelected(ev)
                \/ variant = "basic" /\ NoEventSelectedBasic(ev)
        THEN reject([status |-> 400, error |-> "Select at least one event", nresp |-> 1])
        ELSE IF ~Validates(variant, doc)
        THEN reject(RegisterCatch(variant, "validation"))
        ELSE /\ pending' = pending \cup {[doc |-> doc, valid |-> ValidPayload(b)]}
             /\ nextId' = nextId + 1
             /\ last' = last
     /\ UNCHANGED <<variant, db, clock, created>>

\* the insert reaches the collection (fails: the operation itself fails);
\* the handler answers
RegisterInsert(pd, fails) ==
  LET d == pd.doc
      l == [Idle EXCEPT !.op = "register", !.stage = "insert",
              !.emailHeld = EmailHeld(d.email, db),
              !.sameEmail = (\E r \in db : r.email = d.email),
              !.valid = pd.valid,
              !.storageOps = 1,
              !.storageFailed = fails,
              !.dbBefore = db]
  IN /\ pd \in pending
     /\ pending' = pending \ {pd}
     /\ IF fails
        THEN /\ last' = Answer(l, RegisterCatch(variant, "other"))
             /\ UNCHANGED <<db, created>>
        ELSE IF DuplicateKey(d, db)
        THEN /\ last' = Answer(l, RegisterCatch(variant, "duplicate"))
             /\ UNCHANGED <<db, created>>
        ELSE /\ db' = db \cup {d}
             /\ created' = created \cup {d.id}
             /\ last' = [l EXCEPT !.status = 201, !.nresp = 1,
                           !.regId = IF variant = "basic" THEN 0 ELSE d.id]
     /\ UNCHANGED <<variant, nextId, clock>>

\* the admin requests as the claims classify them
HeaderOk(h) == h = "true"

PaymentClass(pm) ==
  IF pm \in {"cash", "online", "null"} THEN "valid"
  ELSE IF pm = "undefined" THEN "absent" ELSE "other"

IdKnown(id, recs) == \E r \in recs : r.id = id

\* GET /api/admin/registrations  (fails: the storage operation fails)
ListRegistrations(h) ==
  LET l == [Idle EXCEPT !.op = "list", !.stage = "handler", !.auth = HeaderOk(h),
              !.dbBefore = db]
  IN /\ variant = "tracking"
     /\ IF ~CheckAdminAuth(h)
        THEN last' = Answer([l EXCEPT !.stage = "auth"], Unauthorized)
        ELSE \E fails \in BOOLEAN :
               IF fails
               THEN last' = [l EXCEPT !.status = 500, !.nresp = 1, !.storageOps = 1,
                               !.storageFailed = TRUE,
                               !.error = "Failed to fetch registrations"]
               ELSE \E s \in FindSorted(db) :
                      last' = [l EXCEPT !.status = 200, !.nresp = 1,
                                 !.storageOps = 1, !.body = s]
     /\ UNCHANGED <<variant, db, pending, nextId, clock, created>>

\* PUT /api/admin/attendance/:id
SetAttendance(h, id, isPresent) ==
  LET l == [Idle EXCEPT !.op = "attendance", !.stage = "handler",
              !.auth = HeaderOk(h), !.idValid = (id # 0),
              !.idKnown = IdKnown(id, db), !.dbBefore = db]
  IN /\ variant = "tracking"
     /\ IF ~CheckAdminAuth(h)
        THEN /\ last' = Answer([l EXCEPT !.stage = "auth"], Unauthorized)
             /\ UNCHANGED db
        ELSE IF id = 0
        THEN /\ last' = [l EXCEPT !.status = 500, !.nresp = 1,
                           !.error = "Attendance update failed"]
             /\ UNCHANGED db
        ELSE \E fails \in BOOLEAN :
               IF fails
               THEN /\ last' = [l EXCEPT !.status = 500, !.nresp = 1,
                                  !.storageOps = 1, !.storageFailed = TRUE,
                                  !.error = "Attendance update failed"]
                    /\ UNCHANGED db
               ELSE /\ db' = UpdateById(db, id, "isPresent", isPresent)
                    /\ last' = [l EXCEPT !.status = 200, !.nresp = 1,
                                  !.storageOps = 1,
                                  !.body = IF IdKnown(id, db)
                                           THEN <<CHOOSE r \in db' : r.id = id>>
                                           ELSE <<>>]
     /\ UNCHANGED <<variant, pending, nextId, clock, created>>

\* PUT /api/admin/payment/:id
SetPayment(h, id, paymentMethod) ==
  LET l == [Idle EXCEPT !.op = "payment", !.stage = "handler",
              !.auth = HeaderOk(h), !.idValid = (id # 0),
              !.idKnown = IdKnown(id, db),
              !.pmClass = PaymentClass(paymentMethod), !.dbBefore = db]
  IN /\ variant = "tracking"
     /\ IF ~CheckAdminAuth(h)
        THEN /\ last' = Answer([l EXCEPT !.stage = "auth"], Unauthorized)
             /\ UNCHANGED db
        ELSE IF ~PaymentMethodAllowed(paymentMethod)
        THEN /\ last' = [l EXCEPT !.status = 400, !.nresp = 1,
                           !.error = "Invalid payment method"]
             /\ UNCHANGED db
        ELSE IF id = 0
        THEN /\ last' = [l EXCEPT !.status = 500, !.nresp = 1,
                           !.error = "Payment update failed"]
             /\ UNCHANGED db
        ELSE \E fails \in BOOLEAN :
               IF fails
               THEN /\ last' = [l EXCEPT !.status = 500, !.nresp = 1,
                                  !.storageOps = 1, !.storageFailed = TRUE,
                                  !.error = "Payment update failed"]
                    /\ UNCHANGED db
               ELSE /\ db' = UpdateById(db, id, "paymentMethod", paymentMethod)
                    /\ last' = [l EXCEPT !.status = 200, !.nresp = 1,
                                  !.storageOps = 1,
                                  !.body = IF IdKnown(id, db)
                                           THEN <<CHOOSE r \in db' : r.id = id>>
                                           ELSE <<>>]
     /\ UNCHANGED <<variant, pending, nextId, clock, created>>

Next ==
  \/ Tick
  \/ \E rq \in Requests : RegisterReceive(rq)
  \/ \E pd \in pending : \E fails \in BOOLEAN : RegisterInsert(pd, fails)
  \/ \E h \in Headers : ListRegistrations(h)
  \/ \E h \in Headers : \E id \in IdInputs : \E v \in AttendanceInputs :
       SetAttendance(h, id, v)
  \/ \E h \in Headers : \E id \in IdInputs : \E pm \in PaymentInputs :
       SetPayment(h, id, pm)

Spec == Init /\ [][Next]_vars

\* ---------------------------------------------------------------- claims
Ids(recs) == {r.id : r \in recs}

BodyIds(s) == {s[i].id : i \in 1..Len(s)}

Cited12 == variant \in {"server", "tracking"}

AdminOps == {"list", "attendance", "payment"}

\* C1: no two stored records have the same e-mail address, compared after
\* trimming and lower-casing (iterations server.js and part_000:1-230).
C1_UniqueNormalizedEmail ==
  Cited12 =>
    \A r1 \in db : \A r2 \in db :
      r1 # r2 => NormEmail(r1.email) # NormEmail(r2.email)

\* C2: a register request that reaches the collection with an e-mail a stored
\* record already holds is answered with the duplicate-email error, never
\* 201, and leaves the collection as it was.
C2_DuplicateRejected ==
  (last.op = "register" /\ last.stage = "insert" /\ last.sameEmail
     /\ ~last.storageFailed) =>
    /\ last.nresp = 1
    /\ last.status \in {400, 409}
    /\ last.error = "Email already registered"
    /\ db = last.dbBefore

\* C3: an admin request whose admin-auth header is absent or not exactly
\* "true" is answered 401, issues no storage operation, carries no record in
\* its response and changes no record.
C3_UnauthorizedNoEffect ==
  (last.op \in AdminOps /\ ~last.auth) =>
    /\ last.status = 401
    /\ last.nresp = 1
    /\ last.storageOps = 0
    /\ last.body = <<>>
    /\ db = last.dbBefore

C3_Witness ==
  /\ last.op \in {"attendance", "payment"}
  /\ ~last.auth
  /\ last.idKnown
  /\ last.pmClass \in {"none", "valid"}
  /\ last.status = 401

\* C4: an authorized setAttendance or setPayment whose id is well formed and
\* matches no stored record is answered 404 and changes no record.
C4_UnknownIdNotFound ==
  (last.op \in {"attendance", "payment"} /\ last.auth /\ last.idValid
     /\ ~last.idKnown /\ last.pmClass \in {"none", "valid"} /\ ~last.storageFailed) =>
    /\ last.status = 404
    /\ db = last.dbBefore

\* C5: in every step a record of the collection either stays as it was, or
\* is new with isPresent false and paymentMethod absent, or is the record an
\* authorized setAttendance or setPayment names: isPresent and paymentMethod
\* are never set at creation (iterations server.js and part_000:1-230).
C5_StatusOnlyByAdmin ==
  [][Cited12 =>
       \A r \in db' :
         \/ r \in db
         \/ /\ r.id \notin Ids(db)
            /\ r.isPresent = "false"
            /\ r.paymentMethod \in {"null", "undefined"}
         \/ /\ r.id \in Ids(db)
            /\ last'.op \in {"attendance", "payment"}
            /\ last'.auth]_vars

\* C6: every request whose handling has ended was answered exactly once, and
\* an answer reporting a failure carries an error body.
C6_ExactlyOneResponse ==
  last.op # "none" =>
    /\ last.nresp = 1
    /\ last.status >= 400 => last.error # ""

\* C7: a register request whose file File Intake rejects is answered 400 and
\* creates no record (iteration server.js).
C7_FileErrorIs400 ==
  (variant = "server" /\ last.op = "register" /\ last.fileRejected) =>
    /\ last.status = 400
    /\ db = last.dbBefore

\* C8: an authorized setPayment whose paymentMethod is none of cash, online,
\* null -- a missing field included -- is answered 400 "Invalid payment
\* method" before any storage operation, and no record changes.
C8_InvalidPaymentRejected ==
  (last.op = "payment" /\ last.auth /\ last.pmClass \in {"absent", "other"}) =>
    /\ last.status = 400
    /\ last.error = "Invalid payment method"
    /\ last.storageOps = 0
    /\ db = last.dbBefore

C8_Witness ==
  /\ last.op = "payment"
  /\ last.auth
  /\ last.pmClass = "absent"
  /\ last.idKnown
  /\ last.status = 400

\* C9: a register request whose selectedEvents is empty after normalization
\* is answered 400 and creates no record, and every stored record has at
\* least one selected event (iterations server.js and part_000:1-230).
C9_NoEventRejected ==
  Cited12 =>
    /\ (last.op = "register" /\ last.stage = "handler" /\ last.eventsEmpty) =>
         /\ last.status = 400
         /\ db = last.dbBefore
    /\ \A r \in db : Len(r.selectedEvents) >= 1

====
